---- MODULE Spec2Model ----
(***************************************************************************)
(* Population synthesis of cellsim (src/population.py): make_people,       *)
(* partner_count, set_static and validate_popdict.                         *)
(*                                                                         *)
(* Conventions.  Arrays are sequences (1-indexed); uids keep their 0-based *)
(* values.  Ages, debut ages and the time step dt are counted in ticks of  *)
(* 1/6 year, so that the arithmetic on them is exact; dt is at most the    *)
(* width of an age bucket, as np.random.randint needs a bound >= 1.  Layer *)
(* means are counted in halves (1 stands for 0.5 partners).  A random draw *)
(* is a nondeterministic choice over the support of its distribution, and  *)
(* every call on the shared generator is appended to the log `draws`.      *)
(***************************************************************************)
EXTENDS Integers, Sequences, FiniteSets, TLC

VARIABLES
    sim,      \* the simulation object: people, popdict, prognoses and pars
    pc,       \* position of the running call
    call,     \* arguments of the running call
    loc,      \* local variables of make_people
    draws,    \* calls made on the shared random generator, in order
    matcher,  \* invocations of make_random_contacts, in order
    ret,      \* what the call returned or raised
    pop       \* uids of all individuals produced by successive set_static calls

vars == <<sim, pc, call, loc, draws, matcher, ret, pop>>

(***************************************************************************)
(* Bounds                                                                  *)
(***************************************************************************)
MaxN == 2        \* largest pop_size / new_n of a direct partner_count or set_static call
MaxDraw == 1     \* largest raw value a Poisson / negative-binomial draw yields
MaxTotal == 3    \* largest population grown by successive set_static calls
MaxLen == 2      \* longest array of a record given to validate_popdict
MaxPop == 1      \* largest sim['pop_size'] of a make_people call

NaN == -1        \* np.nan, the "not a number" entry of an array
None == "None"

LayerKeys == {"casual", "steady"}
KeyLists == {<<>>, <<"casual">>, <<"casual", "steady">>, <<"steady", "casual">>}
Means == {0, 1, 2}                       \* in halves: 0, 0.5, 1.0
Dispersions == {None, "k"}

Min(a, b) == IF a <= b THEN a ELSE b

SeqsUpTo(S, n) == UNION {[1..k -> S] : k \in 0..n}

Range(s) == {s[i] : i \in DOMAIN s}

(***************************************************************************)
(* Sampling library (utils): each draw is the set of arrays it can yield.  *)
(***************************************************************************)
\* n Poisson draws of the given rate: naturals, all 0 when the rate is 0
n_poisson(rate, n) == [1..n -> IF rate = 0 THEN {0} ELSE 0..MaxDraw]

\* n negative-binomial draws of the given rate and dispersion: naturals
n_neg_binomial(rate, dispersion, n) == [1..n -> IF rate = 0 THEN {0} ELSE 0..MaxDraw]

Draw(stage, layer, fn) == [stage |-> stage, layer |-> layer, fn |-> fn]

(***************************************************************************)
(* partner_count                                                           *)
(***************************************************************************)
\* conversion of a mean (in halves) to cellDef.default_int: truncation
default_int(n) == n \div 2

p_count_no_offset(n, pop_size, sample, dispersion) ==
    IF sample
    THEN IF dispersion = None
         THEN n_poisson(n, pop_size)
         ELSE n_neg_binomial(n, dispersion, pop_size)
    ELSE {[i \in 1..pop_size |-> default_int(n)]}

\* the possible values of p_count for one layer of mean n (body of the loop)
p_count(n, pop_size, sample, dispersion) ==
    IF sample
    THEN IF dispersion = None
         THEN {[i \in 1..pop_size |-> d[i] + 1] : d \in n_poisson(n, pop_size)}
         ELSE {[i \in 1..pop_size |-> d[i] + 1] :
                   d \in n_neg_binomial(n, dispersion, pop_size)}
    ELSE {[i \in 1..pop_size |-> default_int(n)]}

\* the generator calls one layer makes
p_count_draws(lkey, sample, dispersion) ==
    IF sample
    THEN IF dispersion = None
         THEN <<Draw("degree", lkey, "n_poisson")>>
         ELSE <<Draw("degree", lkey, "n_neg_binomial")>>
    ELSE <<>>

means_never_mismatch(means, layer_keys) == FALSE

\* the test of line 151
means_mismatch(means, layer_keys) == Len(means) # Len(layer_keys)

RECURSIVE partners_loop(_, _, _, _, _, _)
\* the loop of lines 156-167 from the i-th pair of zip(layer_keys, means) on:
\* the possible lists `partners`
partners_loop(i, pop_size, layer_keys, means, sample, dispersion) ==
    IF i > Min(Len(layer_keys), Len(means))
    THEN {<<>>}
    ELSE {<<r>> \o rest :
            r \in p_count(means[i], pop_size, sample, dispersion),
            rest \in partners_loop(i + 1, pop_size, layer_keys, means, sample, dispersion)}

RECURSIVE loop_draws(_, _, _, _, _)
loop_draws(i, layer_keys, means, sample, dispersion) ==
    IF i > Min(Len(layer_keys), Len(means))
    THEN <<>>
    ELSE p_count_draws(layer_keys[i], sample, dispersion)
         \o loop_draws(i + 1, layer_keys, means, sample, dispersion)

PartnerOk(m, d) ==
    [kind |-> "ok", partners |-> m, draws |-> d, lens |-> <<>>]

PartnerErr(kind, d, lens) ==
    [kind |-> kind, partners |-> <<>>, draws |-> d, lens |-> lens]

\* the possible outcomes of partner_count; means = None is given as has_means = FALSE
partner_count(pop_size, layer_keys, has_means, means, sample, dispersion) ==
    IF ~has_means
    THEN \* means becomes a dict keyed by layer_keys, and zip pairs each key with a
         \* key of that dict: n is a layer name, which no sampler or np.full accepts
         IF layer_keys = <<>>
         THEN {PartnerOk(<<>>, <<>>)}
         ELSE {PartnerErr("ValueError", <<>>, <<>>)}
    ELSE IF means_mismatch(means, layer_keys)
    THEN {PartnerErr("ValueError", <<>>, <<Len(means), Len(layer_keys)>>)}
    ELSE {PartnerOk(m, loop_draws(1, layer_keys, means, sample, dispersion)) :
            m \in partners_loop(1, pop_size, layer_keys, means, sample, dispersion)}

(***************************************************************************)
(* Direct calls of partner_count                                           *)
(***************************************************************************)
Idle == [fn |-> "none"]
NoRet == [kind |-> "none"]
NoLoc == [stage |-> "none"]
NoneVal == [kind |-> None]
NoSim == [people |-> NoneVal]

InitPartner ==
    /\ sim = NoSim
    /\ pc = "idle"
    /\ call = Idle
    /\ loc = NoLoc
    /\ draws = <<>>
    /\ matcher = <<>>
    /\ ret = NoRet
    /\ pop = <<>>

PartnerCountCall ==
    /\ pc = "idle"
    /\ \E pop_size \in 0..MaxN, layer_keys \in KeyLists, has_means \in BOOLEAN,
          means \in SeqsUpTo(Means, 2), sample \in BOOLEAN, dispersion \in Dispersions :
         \E r \in partner_count(pop_size, layer_keys, has_means, means, sample, dispersion) :
            /\ call' = [fn |-> "partner_count", pop_size |-> pop_size,
                        layer_keys |-> layer_keys, has_means |-> has_means,
                        means |-> means, sample |-> sample, dispersion |-> dispersion]
            /\ ret' = r
            /\ draws' = draws \o r.draws
    /\ pc' = "done"
    /\ UNCHANGED <<sim, loc, matcher, pop>>

NextPartner == PartnerCountCall

SpecPartner == InitPartner /\ [][NextPartner]_vars

(***************************************************************************)
(* set_static                                                              *)
(***************************************************************************)
SexRatios == {0, 50, 100}                \* sex_ratio in percent
DebutM == {2, 8}                         \* support of pars['debut']['m'], in ticks
DebutF == {5}                            \* support of pars['debut']['f'], in ticks

\* the ordered mapping pars['partners'] as a list of (key, mean) items
PartnerCfgs ==
    { <<[key |-> "casual", mean |-> 1]>>,
      <<[key |-> "casual", mean |-> 0], [key |-> "steady", mean |-> 2]>> }

keys(d) == [i \in DOMAIN d |-> d[i].key]
values(d) == [i \in DOMAIN d |-> d[i].mean]

arange_off_by_one(start, stop) ==
    [i \in 1..(IF stop > start THEN stop - start ELSE 0) |-> start + i]

\* np.arange(start, stop)
arange(start, stop) ==
    [i \in 1..(IF stop > start THEN stop - start ELSE 0) |-> start + i - 1]

\* np.random.binomial(1, p, n)
binomial(p, n) == [1..n -> IF p = 0 THEN {0} ELSE IF p = 100 THEN {1} ELSE {0, 1}]

\* cellUtil.sample(**dist, size=n): n values of the distribution's support
sample(support, n) == [1..n -> support]

\* sum(sex)
Sum(sex) == Cardinality({i \in DOMAIN sex : sex[i] = 1})

\* position of element i among the elements of arr equal to v (boolean-mask indexing)
MaskPos(arr, v, i) == Cardinality({j \in 1..i : arr[j] = v})

\* debut after lines 179-181: NaN everywhere, then the rows of each sex filled
fill_debut(sex, ms, fs) ==
    [i \in DOMAIN sex |->
        IF sex[i] = 1 THEN ms[MaskPos(sex, 1, i)]
        ELSE IF sex[i] = 0 THEN fs[MaskPos(sex, 0, i)]
        ELSE NaN]

StaticDrawsDebutFirst ==
    <<Draw("debut", "m", "sample"), Draw("debut", "f", "sample"), Draw("sex", "", "binomial")>>

\* the generator calls of lines 178-181, in order
StaticDraws ==
    <<Draw("sex", "", "binomial"), Draw("debut", "m", "sample"), Draw("debut", "f", "sample")>>

\* the possible outcomes of set_static
set_static(new_n, existing_n, pars, sex_ratio, dispersion) ==
    UNION {
      UNION {
        { [kind |-> pr.kind,
           uid |-> arange(existing_n, existing_n + new_n),
           sex |-> sex,
           debut |-> fill_debut(sex, ms, fs),
           partners |-> pr.partners,
           draws |-> StaticDraws \o pr.draws] :
            pr \in partner_count(new_n, keys(pars.partners), TRUE,
                                 values(pars.partners), TRUE, dispersion) } :
        ms \in sample(pars.debut.m, Sum(sex)),
        fs \in sample(pars.debut.f, new_n - Sum(sex)) } :
      sex \in binomial(sex_ratio, new_n) }

(***************************************************************************)
(* Direct calls of set_static: free calls, and calls that grow a           *)
(* population (existing_n is the number of individuals produced so far)    *)
(***************************************************************************)
StaticPars(partners) == [partners |-> partners, debut |-> [m |-> DebutM, f |-> DebutF]]

InitStatic ==
    /\ \E partners \in PartnerCfgs : sim = [people |-> NoneVal, pars |-> StaticPars(partners)]
    /\ pc = "idle"
    /\ call = Idle
    /\ loc = NoLoc
    /\ draws = <<>>
    /\ matcher = <<>>
    /\ ret = NoRet
    /\ pop = <<>>

StaticCall(new_n, existing_n, sex_ratio, dispersion) ==
    \E r \in set_static(new_n, existing_n, sim.pars, sex_ratio, dispersion) :
        /\ call' = [fn |-> "set_static", new_n |-> new_n, existing_n |-> existing_n,
                    sex_ratio |-> sex_ratio, dispersion |-> dispersion]
        /\ ret' = r
        /\ draws' = r.draws

SetStaticCall ==
    /\ pc = "idle"
    /\ pop = <<>>
    /\ \E new_n \in 0..MaxN, existing_n \in {1, MaxTotal},
          sex_ratio \in SexRatios, dispersion \in Dispersions :
         StaticCall(new_n, existing_n, sex_ratio, dispersion)
    /\ pc' = "done"
    /\ UNCHANGED <<sim, loc, matcher, pop>>

AddIndividuals ==
    /\ pc = "idle"
    /\ \E new_n \in 0..MaxN, sex_ratio \in SexRatios, dispersion \in Dispersions :
         /\ Len(pop) + new_n <= MaxTotal
         /\ StaticCall(new_n, Len(pop), sex_ratio, dispersion)
    /\ pop' = pop \o ret'.uid
    /\ UNCHANGED <<sim, pc, loc, matcher>>

NextStatic == SetStaticCall \/ AddIndividuals

SpecStatic == InitStatic /\ [][NextStatic]_vars

(***************************************************************************)
(* validate_popdict                                                        *)
(***************************************************************************)
\* a population record: is_dict tells whether it has a keys() method, fields
\* maps each key it holds to an array
Popdict(is_dict, fields) == [kind |-> "popdict", is_dict |-> is_dict, fields |-> fields]

required_keys == <<"uid", "age", "sex", "debut">>

\* np.isnan(arr).sum()
isnan_sum(arr) == Cardinality({i \in DOMAIN arr : arr[i] = NaN})

Outcome(kind, what, key, actual, expected, count, avail) ==
    [kind |-> kind, what |-> what, key |-> key, actual |-> actual,
     expected |-> expected, count |-> count, avail |-> avail]

Returned == Outcome("ok", "", "", 0, 0, 0, {})

\* lines 206-210 for a key the record lacks: the KeyNotFoundError is built and
\* dropped, and popdict[key] of line 210 raises a KeyError that holds the key alone
missing_key(popdict, key) ==
    Outcome("KeyError", "lookup", key, 0, 0, 0, {})

length_ignored(actual_size, pop_size) == FALSE

\* the test of line 211
length_differs(actual_size, pop_size) == actual_size # pop_size

nan_ignored(isnan) == FALSE

\* the test of line 216
nan_found(isnan) == isnan # 0

RECURSIVE validate_keys(_, _, _)
\* the loop of lines 204-218 from the i-th required key on
validate_keys(i, popdict, pop_size) ==
    IF i > Len(required_keys) THEN Returned
    ELSE LET key == required_keys[i] IN
         IF key \notin DOMAIN popdict.fields THEN missing_key(popdict, key)
         ELSE LET actual_size == Len(popdict.fields[key])
                  isnan == isnan_sum(popdict.fields[key])
              IN  IF length_differs(actual_size, pop_size)
                  THEN Outcome("ValueError", "length", key, actual_size, pop_size, 0, {})
                  ELSE IF nan_found(isnan)
                  THEN Outcome("ValueError", "nan", key, 0, 0, isnan, {})
                  ELSE validate_keys(i + 1, popdict, pop_size)

\* the outcome of validate_popdict
validate_popdict(popdict, pars) ==
    IF ~popdict.is_dict
    THEN Outcome("TypeError", "type", "", 0, 0, 0, {})
    ELSE validate_keys(1, popdict, pars.pop_size)

(***************************************************************************)
(* Direct calls of validate_popdict on every small record                  *)
(***************************************************************************)
Arrays == SeqsUpTo({0, NaN}, MaxLen)

\* the records over the required keys: each key absent or holding an array
Records ==
    UNION {[ks -> Arrays] : ks \in SUBSET Range(required_keys)}

InitValidate ==
    /\ \E pop_size \in 0..MaxLen : sim = [people |-> NoneVal, pars |-> [pop_size |-> pop_size]]
    /\ pc = "idle"
    /\ \E is_dict \in BOOLEAN, fields \in Records :
         /\ is_dict \/ fields = <<>>
         /\ call = [fn |-> "validate_popdict", popdict |-> Popdict(is_dict, fields)]
    /\ loc = NoLoc
    /\ draws = <<>>
    /\ matcher = <<>>
    /\ ret = NoRet
    /\ pop = <<>>

ValidateCall ==
    /\ pc = "idle"
    /\ ret' = validate_popdict(call.popdict, sim.pars)
    /\ pc' = "done"
    /\ UNCHANGED <<sim, call, loc, draws, matcher, pop>>

NextValidate == ValidateCall

SpecValidate == InitValidate /\ [][NextValidate]_vars

(***************************************************************************)
(* make_people                                                             *)
(***************************************************************************)
Micros == {None, "random", "basic", "hybrid"}   \* microstructure; None is the default
Dts == {3, 4}                            \* sim['dt'] in ticks of 1/6 year: 1/2 and 2/3 year
Randoms == {0, 5}                        \* values of np.random.random(), in sixths

\* cellDef.default_age_data: rows (age_min, age_max, weight), ages in years
age_data ==
    << [min |-> 0, max |-> 0, w |-> 1],
       [min |-> 1, max |-> 2, w |-> 3],
       [min |-> 3, max |-> 3, w |-> 0] >>

\* cellDef.age_brackets, in ticks
age_brackets == <<6, 12>>

layer_probs == [k \in LayerKeys |-> IF k = "casual" THEN 100 ELSE 50]
dur_pship == [k \in LayerKeys |-> <<"dur_pship", k>>]
acts == [k \in LayerKeys |-> <<"acts", k>>]

SimPars(pop_size, dt, partners) ==
    [pop_size |-> pop_size, dt |-> dt, partners |-> partners,
     layer_probs |-> layer_probs, dur_pship |-> dur_pship, acts |-> acts,
     debut |-> [m |-> DebutM, f |-> DebutF]]

\* lines 69-72, in ticks
age_data_min == [i \in DOMAIN age_data |-> 6 * age_data[i].min]
age_data_max == [i \in DOMAIN age_data |-> 6 * (age_data[i].max + 1)]
age_data_range == [i \in DOMAIN age_data |-> age_data_max[i] - age_data_min[i]]
age_data_prob == [i \in DOMAIN age_data |-> age_data[i].w]

\* cellUtil.n_multinomial(probs, n): n indices of entries of positive probability
n_multinomial(probs, n) == [1..n -> {i \in DOMAIN probs : probs[i] > 0}]

steps_rounded_up(range, dt) == (range + dt - 1) \div dt

\* age_data_range[...] / dt as np.random.randint takes it: cut to an integer
steps_in_bin(range, dt) == range \div dt

\* np.random.randint(high) for an array high: one integer of 0..high[i]-1 per entry
randint(high) ==
    {k \in [DOMAIN high -> 0..12] : \A i \in DOMAIN high : k[i] < high[i]}

\* np.random.random(n)
random(n) == [1..n -> Randoms]

\* the possible arrays `ages` of lines 75-80
make_ages(age_bins, dt, dt_round_age) ==
    IF dt_round_age
    THEN {[i \in DOMAIN age_bins |-> age_data_min[age_bins[i]] + k[i] * dt] :
            k \in randint([i \in DOMAIN age_bins |->
                              steps_in_bin(age_data_range[age_bins[i]], dt)])}
    ELSE {[i \in DOMAIN age_bins |->
              age_data_min[age_bins[i]] + (age_data_range[age_bins[i]] * r[i]) \div 6] :
            r \in random(Len(age_bins))}

AgeDraws(dt_round_age) ==
    <<Draw("age_bins", "", "n_multinomial"),
      Draw("age_offset", "", IF dt_round_age THEN "randint" ELSE "random")>>

\* cellUtil.true(ages > debuts): the positions where the comparison holds, ascending
RECURSIVE true_from(_, _, _)
true_from(i, ages, debuts) ==
    IF i > Len(ages) THEN <<>>
    ELSE (IF ages[i] > debuts[i] THEN <<i>> ELSE <<>>) \o true_from(i + 1, ages, debuts)

RECURSIVE SubSeqs(_)
\* the subsequences of s
SubSeqs(s) ==
    IF s = <<>> THEN {<<>>}
    ELSE LET rest == SubSeqs(Tail(s)) IN rest \cup {<<Head(s)>> \o t : t \in rest}

\* cellUtil.binomial_filter(prob, arr): the entries of arr kept with probability prob
binomial_filter(prob, arr) ==
    IF prob = 100 THEN {arr} ELSE IF prob = 0 THEN {<<>>} ELSE SubSeqs(arr)

\* make_random_contacts: the contact structure and the partner-count snapshot it
\* builds are left uninterpreted, each named by the arguments of the call
make_random_contacts(args) ==
    [contacts |-> [edges_of |-> args], cp |-> [counts_of |-> args]]

recognized_or_default(microstructure) == microstructure \in {"random", "basic", None}

\* the test of line 92
recognized(microstructure) == microstructure \in {"random", "basic"}

lno_stuck(lno) == lno

\* line 104
next_lno(lno) == lno + 1

\* np.digitize(age, bins) + 1 of lines 122-123
digitize_plus_1(age, bins) ==
    [i \in DOMAIN age |-> Cardinality({j \in DOMAIN bins : bins[j] <= age[i]}) + 1]

entry_path_ignoring_reset(people, stored, popdict, reset) ==
    IF people.kind # None THEN "reuse"
    ELSE IF stored.kind # None /\ popdict.kind = None THEN "adopt_stored"
    ELSE IF popdict.kind # None THEN "adopt_given"
    ELSE "fresh"

\* the branches of lines 48-55
entry_path(people, stored, popdict, reset) ==
    IF people.kind # None /\ ~reset THEN "reuse"
    ELSE IF stored.kind # None /\ popdict.kind = None THEN "adopt_stored"
    ELSE IF popdict.kind # None THEN "adopt_given"
    ELSE "fresh"

\* People.initialize(sim_pars)
initialize(people, pars) == [people EXCEPT !.initialized = TRUE, !.pars = pars]

\* cellMass.People(pars, uid=..., ...) followed by lines 122-123
People(pars, f) ==
    [kind |-> "People", id |-> "new", initialized |-> FALSE, pars |-> pars,
     uid |-> f["uid"], age |-> f["age"], sex |-> f["sex"], debut |-> f["debut"],
     partners |-> f["partners"], contacts |-> f["contacts"],
     current_partners |-> f["current_partners"],
     age_brackets |-> digitize_plus_1(f["age"], age_brackets)]

\* a population entity built by an earlier call
AttachedPeople == [kind |-> "People", id |-> "attached", initialized |-> FALSE, pars |-> <<>>]

\* population dictionaries a caller supplies or the sim has stored
FullFields(n) ==
    [k \in {"uid", "age", "sex", "debut", "partners", "contacts", "current_partners"} |->
        IF k = "uid" THEN arange(0, n)
        ELSE IF k \in {"age", "debut"} THEN [i \in 1..n |-> 9]
        ELSE IF k = "sex" THEN [i \in 1..n |-> 0]
        ELSE <<>>]

Without(f, k) == [x \in DOMAIN f \ {k} |-> f[x]]

SuppliedPopdicts(n) ==
    { Popdict(TRUE, FullFields(n)),
      Popdict(TRUE, Without(FullFields(n), "debut")),
      Popdict(TRUE, [FullFields(n) EXCEPT !["age"] = [i \in 1..(n + 1) |-> 9]]),
      Popdict(TRUE, Without(FullFields(n), "contacts")) }

NewLoc ==
    [path |-> "none", popdict |-> NoneVal, uids |-> <<>>, sexes |-> <<>>, debuts |-> <<>>,
     partners |-> <<>>, age_bins |-> <<>>, ages |-> <<>>, active_inds |-> <<>>,
     contacts |-> <<>>, current_partners |-> <<>>, lno |-> 0, validated |-> <<>>]

\* the sim before the call: an entity and a dictionary attached or not, and no
\* prognoses set yet
Init ==
    /\ \E pop_size \in 0..MaxPop, dt \in Dts, partners \in PartnerCfgs,
          people \in {NoneVal, AttachedPeople} :
       \E stored \in {NoneVal} \cup SuppliedPopdicts(pop_size) :
         sim = [people |-> people, popdict |-> stored, prognoses |-> None,
                pars |-> SimPars(pop_size, dt, partners)]
    /\ pc = "idle"
    /\ call = Idle
    /\ loc = NewLoc
    /\ draws = <<>>
    /\ matcher = <<>>
    /\ ret = NoRet
    /\ pop = <<>>

\* lines 42-55: the call is made and takes one of its entry paths
Enter ==
    /\ pc = "idle"
    /\ \E popdict \in {NoneVal} \cup SuppliedPopdicts(sim.pars.pop_size),
          reset \in BOOLEAN, dt_round_age \in BOOLEAN,
          dispersion \in Dispersions, microstructure \in Micros :
         LET path == entry_path(sim.people, sim.popdict, popdict, reset) IN
         /\ call' = [fn |-> "make_people", popdict |-> popdict, reset |-> reset,
                     dt_round_age |-> dt_round_age, dispersion |-> dispersion,
                     microstructure |-> microstructure, sex_ratio |-> 50,
                     entry |-> [people |-> sim.people, popdict |-> sim.popdict]]
         /\ loc' = [loc EXCEPT !.path = path,
                               !.popdict = IF path = "adopt_stored" THEN sim.popdict
                                           ELSE popdict]
         /\ sim' = IF path = "reuse"
                   THEN [sim EXCEPT !.people = initialize(sim.people, sim.pars)]
                   ELSE IF path = "adopt_stored"
                   THEN [sim EXCEPT !.popdict = NoneVal]
                   ELSE sim
         /\ ret' = IF path = "reuse"
                   THEN [kind |-> "people", people |-> initialize(sim.people, sim.pars)]
                   ELSE ret
         /\ pc' = IF path = "reuse" THEN "returned"
                  ELSE IF path = "fresh" THEN "set_static"
                  ELSE "finalize"
    /\ UNCHANGED <<draws, matcher, pop>>

\* line 66
SetStatic ==
    /\ pc = "set_static"
    /\ \E r \in set_static(sim.pars.pop_size, 0, sim.pars, call.sex_ratio, call.dispersion) :
         /\ loc' = [loc EXCEPT !.uids = r.uid, !.sexes = r.sex, !.debuts = r.debut,
                               !.partners = r.partners]
         /\ draws' = draws \o r.draws
    /\ pc' = "ages"
    /\ UNCHANGED <<sim, call, matcher, ret, pop>>

\* lines 68-94 and 105-107: the ages, the record, the active individuals and the
\* test of the microstructure
SetAges ==
    /\ pc = "ages"
    /\ \E age_bins \in n_multinomial(age_data_prob, sim.pars.pop_size) :
       \E ages \in make_ages(age_bins, sim.pars.dt, call.dt_round_age) :
         /\ loc' = [loc EXCEPT
                      !.age_bins = age_bins,
                      !.ages = ages,
                      !.popdict = Popdict(TRUE,
                          ("uid" :> loc.uids) @@ ("age" :> ages) @@ ("sex" :> loc.sexes)
                          @@ ("debut" :> loc.debuts) @@ ("partners" :> loc.partners)),
                      !.active_inds = true_from(1, ages, loc.debuts)]
         /\ draws' = draws \o AgeDraws(call.dt_round_age)
    /\ IF recognized(call.microstructure)
       THEN /\ pc' = IF sim.pars.partners = <<>> THEN "finalize" ELSE "contacts"
            /\ ret' = ret
       ELSE /\ pc' = "raised"
            /\ ret' = [kind |-> "NotImplementedError", value |-> call.microstructure]
    /\ UNCHANGED <<sim, call, matcher, pop>>

\* lines 96-104: one turn of the loop over sim['partners'].items()
MakeContacts ==
    /\ pc = "contacts"
    /\ LET item == sim.pars.partners[Len(matcher) + 1]
           lkey == item.key
       IN  \E active_inds_layer \in binomial_filter(sim.pars.layer_probs[lkey], loc.active_inds) :
             LET args == [p_count |-> loc.partners[loc.lno + 1], sexes |-> loc.sexes,
                          ages |-> loc.ages, n |-> item.mean,
                          durations |-> sim.pars.dur_pship[lkey], acts |-> sim.pars.acts[lkey],
                          mapping |-> active_inds_layer]
                 out == make_random_contacts(args)
             IN  /\ matcher' = Append(matcher, args)
                 /\ loc' = [loc EXCEPT
                              !.contacts = (lkey :> out.contacts) @@ loc.contacts,
                              !.current_partners = Append(loc.current_partners, out.cp),
                              !.lno = next_lno(loc.lno)]
                 /\ draws' = draws \o <<Draw("contacts", lkey, "binomial_filter"),
                                        Draw("contacts", lkey, "make_random_contacts")>>
                 /\ pc' = IF Len(matcher') = Len(sim.pars.partners)
                          THEN "finalize" ELSE "contacts"
    /\ UNCHANGED <<sim, call, ret, pop>>

\* lines 109-127: the record is completed (fresh generation), the prognoses are
\* ensured, the record is validated and the people are made
Finalize ==
    /\ pc = "finalize"
    /\ LET popdict ==
             IF loc.path = "fresh"
             THEN Popdict(TRUE,
                     ("contacts" :> loc.contacts)
                     @@ ("current_partners" :> loc.current_partners)
                     @@ ("layer_keys" :> keys(sim.pars.partners))
                     @@ loc.popdict.fields)
             ELSE loc.popdict
           checked == validate_popdict(popdict, sim.pars)
           lacking == {"partners", "contacts", "current_partners"} \ DOMAIN popdict.fields
       IN  /\ loc' = [loc EXCEPT !.popdict = popdict,
                                 !.validated = Append(loc.validated, popdict)]
           /\ sim' = IF sim.prognoses = None THEN [sim EXCEPT !.prognoses = "default"]
                     ELSE sim
           /\ IF checked.kind # "ok"
              THEN /\ ret' = checked
                   /\ pc' = "raised"
              ELSE IF lacking # {}
              THEN /\ ret' = [kind |-> "KeyError", lacking |-> lacking]
                   /\ pc' = "raised"
              ELSE /\ ret' = [kind |-> "people", people |-> People(sim.pars, popdict.fields)]
                   /\ pc' = "returned"
    /\ UNCHANGED <<call, draws, matcher, pop>>

Next == Enter \/ SetStatic \/ SetAges \/ MakeContacts \/ Finalize

Spec == Init /\ [][Next]_vars

(***************************************************************************)
(* Properties of partner_count (SpecPartner)                               *)
(***************************************************************************)
PartnerDone == pc = "done" /\ call.fn = "partner_count"

\* C1: partner_count with sample=True and supplied means returns a matrix of one
\* row per layer and one column per individual in which every entry is >= 1,
\* whatever the non-negative means (0 included) and with or without a dispersion.
C1_SampledDegreeAtLeastOne ==
    (PartnerDone /\ call.sample /\ ret.kind = "ok" /\ call.has_means) =>
        /\ Len(ret.partners) = Len(call.layer_keys)
        /\ \A l \in DOMAIN ret.partners :
             /\ Len(ret.partners[l]) = call.pop_size
             /\ \A i \in DOMAIN ret.partners[l] : ret.partners[l][i] >= 1

\* a sampled negative-binomial call of two layers, one of mean 0, on a non-empty population
C1_Witness ==
    /\ PartnerDone /\ call.sample /\ ret.kind = "ok" /\ call.has_means
    /\ call.dispersion # None
    /\ call.means = <<0, 2>>
    /\ call.pop_size = MaxN
    /\ \E i \in DOMAIN ret.partners[2] : ret.partners[2][i] > 1

\* C6: a partner_count call whose supplied means have another length than the
\* layer keys fails with a ValueError naming both lengths, before any layer is
\* sampled and without any partial degree matrix.
C6_LengthMismatchFails ==
    (PartnerDone /\ call.has_means /\ Len(call.means) # Len(call.layer_keys)) =>
        /\ ret.kind = "ValueError"
        /\ ret.lens = <<Len(call.means), Len(call.layer_keys)>>
        /\ ret.partners = <<>>
        /\ draws = <<>>

\* two layer keys, one mean, sampling asked for on a non-empty population
C6_Witness ==
    /\ PartnerDone /\ call.has_means /\ call.sample
    /\ Len(call.layer_keys) = 2 /\ Len(call.means) = 1
    /\ call.pop_size > 0
    /\ ret.kind = "ValueError"

(***************************************************************************)
(* Properties of set_static (SpecStatic)                                   *)
(***************************************************************************)
\* C2: set_static returns uid, sex and debut of length new_n and a degree matrix
\* of new_n columns, uid being existing_n .. existing_n+new_n-1; and when every
\* call's existing_n is the number of individuals produced so far, the uids
\* produced are 0..N-1 without gap or repeat.
C2_StaticShapeAndUids ==
    /\ (call.fn = "set_static" /\ ret.kind = "ok") =>
         /\ Len(ret.uid) = call.new_n
         /\ Len(ret.sex) = call.new_n
         /\ Len(ret.debut) = call.new_n
         /\ \A l \in DOMAIN ret.partners : Len(ret.partners[l]) = call.new_n
         /\ \A i \in 1..call.new_n : ret.uid[i] = call.existing_n + i - 1
    /\ \A i \in DOMAIN pop : pop[i] = i - 1

\* a population grown to its bound by a call that added to an existing one
C2_Witness ==
    /\ call.fn = "set_static" /\ ret.kind = "ok" /\ pc = "idle"
    /\ call.existing_n >= 1 /\ call.new_n = MaxN
    /\ Len(pop) = MaxTotal

(***************************************************************************)
(* Properties of validate_popdict (SpecValidate)                           *)
(***************************************************************************)
ValidateDone == pc = "done" /\ call.fn = "validate_popdict" /\ call.popdict.is_dict

Fields == call.popdict.fields
Present(k) == k \in DOMAIN Fields
WrongLength(k) == Present(k) /\ Len(Fields[k]) # sim.pars.pop_size
HasNaN(k) == Present(k) /\ \E i \in DOMAIN Fields[k] : Fields[k][i] = NaN
NaNCount(k) == Cardinality({i \in DOMAIN Fields[k] : Fields[k][i] = NaN})
Sound(k) == Present(k) /\ ~WrongLength(k) /\ ~HasNaN(k)
Required == {"uid", "age", "sex", "debut"}
FirstUnsound(k) ==
    \E i \in DOMAIN required_keys :
        /\ required_keys[i] = k
        /\ ~Sound(k)
        /\ \A j \in 1..(i - 1) : Sound(required_keys[j])

\* C4: a record lacking one required field (and sound otherwise) fails with a
\* missing-field error that names the field and lists the available fields.
C4_MissingFieldError ==
    \A k \in Required :
        (ValidateDone /\ ~Present(k) /\ \A o \in Required \ {k} : Sound(o)) =>
            /\ ret.kind \in {"KeyError", "KeyNotFoundError"}
            /\ ret.key = k
            /\ ret.avail = DOMAIN Fields

\* C5 as stated, on the records that hold all four required fields: a return
\* without raising means every required field has length pop_size and no NaN;
\* every required field of another length makes the call fail with the
\* length-mismatch error naming that field, its length and the expected one;
\* every required field of the right length holding a NaN makes it fail with the
\* error giving that field's NaN count.
C5_Original ==
    (ValidateDone /\ \A k \in Required : Present(k)) =>
        /\ ret.kind = "ok" => \A k \in Required : Sound(k)
        /\ \A k \in Required :
             WrongLength(k) =>
                 /\ ret.kind = "ValueError" /\ ret.what = "length" /\ ret.key = k
                 /\ ret.actual = Len(Fields[k]) /\ ret.expected = sim.pars.pop_size
        /\ \A k \in Required :
             (Present(k) /\ ~WrongLength(k) /\ HasNaN(k)) =>
                 /\ ret.kind = "ValueError" /\ ret.what = "nan" /\ ret.key = k
                 /\ ret.count = NaNCount(k)

\* C5 amended: a return without raising means every required field has length
\* pop_size and no NaN; any unsound required field makes the call fail, and the
\* error is decided by the first unsound field in the order uid, age, sex,
\* debut: the length-mismatch error naming it, its length and the expected one
\* when its length is wrong, the error giving its NaN count when it has the
\* right length and holds a NaN.
C5_FirstUnsoundFieldDecides ==
    ValidateDone =>
        /\ ret.kind = "ok" => \A k \in Required : Sound(k)
        /\ (\E k \in Required : ~Sound(k)) => ret.kind # "ok"
        /\ \A k \in Required :
             (FirstUnsound(k) /\ WrongLength(k)) =>
                 /\ ret.kind = "ValueError" /\ ret.what = "length" /\ ret.key = k
                 /\ ret.actual = Len(Fields[k]) /\ ret.expected = sim.pars.pop_size
        /\ \A k \in Required :
             (FirstUnsound(k) /\ Present(k) /\ ~WrongLength(k) /\ HasNaN(k)) =>
                 /\ ret.kind = "ValueError" /\ ret.what = "nan" /\ ret.key = k
                 /\ ret.count = NaNCount(k)

\* age one entry short of pop_size is the first unsound field, and a later field holds NaNs
C5_Witness ==
    /\ ValidateDone
    /\ sim.pars.pop_size = MaxLen
    /\ Sound("uid")
    /\ Present("age") /\ Len(Fields["age"]) = sim.pars.pop_size - 1
    /\ Present("debut") /\ ~WrongLength("debut") /\ NaNCount("debut") = MaxLen
    /\ ret.kind = "ValueError" /\ ret.key = "age"

(***************************************************************************)
(* Properties of make_people (Spec)                                        *)
(***************************************************************************)
InMakePeople == call.fn = "make_people"
Finished == pc \in {"returned", "raised"}
Fresh == InMakePeople /\ loc.path = "fresh"
AgesSet == Fresh /\ pc \notin {"idle", "set_static", "ages"}
Layers == sim.pars.partners

\* C3: in fresh generation every age lies in [age_min(bucket), age_max(bucket)+1)
\* of the bucket drawn for the individual, and with dt_round_age it is
\* age_min(bucket) + k*dt for an integer 0 <= k < floor((age_max+1-age_min)/dt).
C3_AgeWithinBucket ==
    AgesSet =>
        /\ Len(loc.ages) = sim.pars.pop_size
        /\ Len(loc.age_bins) = sim.pars.pop_size
        /\ \A i \in DOMAIN loc.ages :
             LET b == age_data[loc.age_bins[i]]
                 lo == 6 * b.min
                 hi == 6 * (b.max + 1)
             IN  /\ lo <= loc.ages[i]
                 /\ loc.ages[i] < hi
                 /\ call.dt_round_age =>
                      \E k \in 0..(((hi - lo) \div sim.pars.dt) - 1) :
                          loc.ages[i] = lo + k * sim.pars.dt

\* a rounded age on the last grid point of the wide bucket, for a dt that does
\* not divide the narrow bucket
C3_Witness ==
    /\ AgesSet /\ call.dt_round_age /\ sim.pars.dt = 4
    /\ \E i \in DOMAIN loc.ages : loc.age_bins[i] = 2 /\ loc.ages[i] = 6 + 2 * 4

\* C7 as stated: every make_people call with an unrecognized microstructure ends
\* in NotImplementedError naming the value, whatever its entry state.
C7_Original ==
    (InMakePeople /\ Finished /\ call.microstructure \notin {"random", "basic"}) =>
        /\ ret.kind = "NotImplementedError"
        /\ ret.value = call.microstructure

\* C7 amended: a make_people call that generates a fresh cohort (no population
\* entity attached or reset true, and no dictionary supplied or attached) with an
\* unrecognized microstructure never invokes the contact matcher, never validates
\* a record and never returns a population entity: once the attributes and ages
\* are sampled it ends in NotImplementedError naming the offending value.
C7_FreshUnrecognizedRaises ==
    (Fresh /\ call.microstructure \notin {"random", "basic"}) =>
        /\ matcher = <<>>
        /\ loc.validated = <<>>
        /\ ret.kind \in {"none", "NotImplementedError"}
        /\ pc \in {"set_static", "ages", "raised"}
        /\ pc = "raised" =>
             /\ ret.kind = "NotImplementedError"
             /\ ret.value = call.microstructure
             /\ Len(loc.ages) = sim.pars.pop_size

\* the default microstructure, a population entity attached and reset asked for
C7_Witness ==
    /\ Fresh /\ pc = "raised"
    /\ call.microstructure = None
    /\ call.entry.people.kind # None /\ call.reset
    /\ ret.kind = "NotImplementedError"

StageNo(d) ==
    CASE d.stage = "sex" -> 1
      [] d.stage = "debut" -> 2
      [] d.stage = "degree" -> 3
      [] d.stage = "age_bins" -> 4
      [] d.stage = "age_offset" -> 5
      [] d.stage = "contacts" -> 6

LayerNo(d) ==
    IF \E i \in DOMAIN Layers : Layers[i].key = d.layer
    THEN CHOOSE i \in DOMAIN Layers : Layers[i].key = d.layer
    ELSE 0

\* C9: in fresh generation the draws on the shared generator come in the order
\* sex, debut, degree matrix layer by layer in layer-key order, age buckets,
\* within-bucket offsets, contact matching layer by layer in layer-key order; a
\* completed run with a recognized microstructure has made all of them.
C9_DrawOrder ==
    Fresh =>
        /\ \A i, j \in DOMAIN draws :
             i < j =>
                 \/ StageNo(draws[i]) < StageNo(draws[j])
                 \/ /\ StageNo(draws[i]) = StageNo(draws[j])
                    /\ StageNo(draws[i]) \in {3, 6} => LayerNo(draws[i]) <= LayerNo(draws[j])
        /\ (pc = "returned" /\ call.microstructure \in {"random", "basic"}) =>
             /\ \A n \in 1..5 : \E i \in DOMAIN draws : StageNo(draws[i]) = n
             /\ \A l \in DOMAIN Layers : \A n \in {3, 6} :
                  \E i \in DOMAIN draws : StageNo(draws[i]) = n /\ LayerNo(draws[i]) = l

\* a completed fresh generation over two layers and a non-empty population
C9_Witness ==
    /\ Fresh /\ pc = "returned"
    /\ Len(Layers) = 2 /\ sim.pars.pop_size > 0
    /\ Len(draws) = 3 + 2 + 2 + 4

IsSubSeq(s, t) == s \in SubSeqs(t)

\* C10: row i of the degree matrix comes from the i-th layer key and mean, and
\* fresh generation invokes the contact matcher once per layer of
\* sim['partners'], in order, with row i of the matrix and that layer's own mean,
\* probability filter, duration and act-rate specs, so that contacts,
\* current_partners and popdict['layer_keys'] follow the layer-key order.
C10_LayerOrderPreserved ==
    Fresh =>
        /\ pc \notin {"idle", "set_static"} =>
             /\ Len(loc.partners) = Len(Layers)
             /\ \A l \in DOMAIN Layers :
                  /\ Len(loc.partners[l]) = sim.pars.pop_size
                  /\ Layers[l].mean = 0 => \A i \in DOMAIN loc.partners[l] : loc.partners[l][i] = 1
                  /\ \E i \in DOMAIN draws :
                       /\ draws[i].stage = "degree" /\ draws[i].layer = Layers[l].key
                       /\ Cardinality({j \in 1..i : draws[j].stage = "degree"}) = l
        /\ Len(matcher) <= Len(Layers)
        /\ \A l \in DOMAIN matcher :
             /\ matcher[l].p_count = loc.partners[l]
             /\ matcher[l].n = Layers[l].mean
             /\ matcher[l].durations = sim.pars.dur_pship[Layers[l].key]
             /\ matcher[l].acts = sim.pars.acts[Layers[l].key]
             /\ IsSubSeq(matcher[l].mapping, loc.active_inds)
             /\ sim.pars.layer_probs[Layers[l].key] = 100 => matcher[l].mapping = loc.active_inds
        /\ pc = "returned" =>
             LET f == loc.popdict.fields IN
             /\ Len(matcher) = Len(Layers)
             /\ f["layer_keys"] = keys(Layers)
             /\ DOMAIN f["contacts"] = Range(keys(Layers))
             /\ Len(f["current_partners"]) = Len(Layers)
             /\ \A l \in DOMAIN Layers :
                  /\ f["contacts"][Layers[l].key] = make_random_contacts(matcher[l]).contacts
                  /\ f["current_partners"][l] = make_random_contacts(matcher[l]).cp
             /\ ret.people.contacts = f["contacts"]
             /\ ret.people.current_partners = f["current_partners"]
             /\ ret.people.partners = loc.partners

\* a completed fresh generation over two layers whose degree rows differ and
\* whose second layer kept only part of the active individuals
C10_Witness ==
    /\ Fresh /\ pc = "returned"
    /\ Len(Layers) = 2
    /\ loc.partners[1] # loc.partners[2]
    /\ loc.active_inds # <<>>
    /\ matcher[2].mapping # loc.active_inds

====
